---- MODULE Spec2Model ----
(***************************************************************************)
(* Model of pyinseq.py: the main() orchestration of the Tn-seq pipeline.   *)
(* One run of main() is a sequential state machine; pc is the position in  *)
(* main().  The collaborators imported from demultiplex, gbkconvert,       *)
(* mapReads, processMapping and utils are calls that either return or      *)
(* raise; main() has no try/except, so a raise ends the run.               *)
(***************************************************************************)
EXTENDS Integers, Sequences, FiniteSets, TLC

VARIABLES
    args,           \* result of parseArgs(sys.argv[1:])
    pc,             \* position in main()
    experiment,     \* convert_to_filename(args.experiment)
    disruption,     \* float(args.disruption), in tenths
    nobarcodes,     \* args.nobarcodes
    barcode_qc,
    barcode_length,
    samplesDict,    \* ordered mapping: sequence of sample records
    geneMappings,   \* dict sample key -> mapGenes result
    i,              \* index of the sample the for loops are at
    cwd,            \* process working directory (os.getcwd())
    savedPath,      \* cd.savedPath of the active `with cd(...)` block
    files,          \* absolute paths of the files written by the run
    trimmed,        \* keys of the samples whose trim_fastq call returned
    history,        \* calls made so far, in order
    tables,         \* arguments of each buildGeneTable call, in order
    failed          \* the call that raised, once the run is aborted

vars == <<args, pc, experiment, disruption, nobarcodes, barcode_qc,
          barcode_length, samplesDict, geneMappings, i, cwd, savedPath,
          files, trimmed, history, tables, failed>>

----------------------------------------------------------------------------
(* Bounds and input domains *)

MaxSamples == 2

SampleNames == {"A", "B", "C"}

\* values of -d, in tenths: -0.5, 0.0, 0.5, 1.0 (the default), 1.5
DisruptionArgs == {-5, 0, 5, 10, 15}

ExperimentArgs == {"exp", "my exp"}

----------------------------------------------------------------------------
(* Paths: a path is a sequence of components, a component is <<stem, ext>> *)

Comp(stem, ext) == <<stem, ext>>

DotDot == Comp("..", "")

NoPath == <<>>

NoSample == "-"

\* the directory the run is started in (absolute)
StartDir == <<Comp("work", "")>>

RECURSIVE Normalize(_)
Normalize(p) ==
    IF p = <<>> THEN <<>>
    ELSE LET init == Normalize(SubSeq(p, 1, Len(p) - 1))
             last == p[Len(p)]
         IN  IF last = DotDot
             THEN IF init = <<>> THEN <<>> ELSE SubSeq(init, 1, Len(init) - 1)
             ELSE Append(init, last)

\* the file a relative path denotes when used from directory dir
Resolve(dir, rel) == Normalize(dir \o rel)

----------------------------------------------------------------------------
(* Helpers *)

Keys(d) == {d[k].key : k \in DOMAIN d}

Barcode(name) ==
    CASE name = "A" -> "ACGT"
      [] name = "B" -> "TTTT"
      [] OTHER      -> "GGGG"

\* sequences of distinct sample names, at most MaxSamples long
SampleLists ==
    {s \in UNION {[1..n -> SampleNames] : n \in 0..MaxSamples} :
        \A a, b \in DOMAIN s : a # b => s[a] # s[b]}

Event(op, sample, inp, out, n, ok) ==
    [op |-> op, sample |-> sample, cwd |-> cwd, inp |-> inp, out |-> out,
     n |-> n, ok |-> ok]

NoFailure == [op |-> "-", sample |-> NoSample]

Raise(op, sample) ==
    /\ pc' = "aborted"
    /\ failed' = [op |-> op, sample |-> sample]

----------------------------------------------------------------------------
(* Pure parts of main() *)

\* utils.convert_to_filename: spaces become underscores
convert_to_filename(name) ==
    CASE name = "my exp" -> "my_exp"
      [] OTHER           -> name

organism == "genome"

genomeDir(e) == <<Comp(e, ""), Comp("genome_lookup", "")>>

BarcodeConfigAlways4(nb) == [qc |-> TRUE, len |-> 4]

\* barcode_qc, barcode_length
BarcodeConfig(nb) ==
    IF nb THEN [qc |-> FALSE, len |-> 0] ELSE [qc |-> TRUE, len |-> 4]

demultiplexedPath(e, sampleName) ==
    <<Comp(e, ""), Comp("raw_data", ""), Comp(sampleName, ".fastq.gz")>>

trimmedPath(e, sampleName) == <<Comp(e, ""), Comp(sampleName, "_trimmed.fastq")>>

trimmedSampleFile(sample) == Comp(sample, "_trimmed.fastq")

bowtieOutputFile(sample) == Comp(sample, "_bowtie.txt")

bowtie_in_NoParent(sample) == <<trimmedSampleFile(sample)>>

bowtie_in(sample) == <<DotDot, trimmedSampleFile(sample)>>

bowtie_out(sample) == <<DotDot, bowtieOutputFile(sample)>>

mapSitesInput(e, sample) == <<Comp(e, ""), bowtieOutputFile(sample)>>

\* the sample list parsed into the ordered samples dictionary
sample_prep(samples) ==
    [k \in DOMAIN samples |->
        [key |-> samples[k], name |-> samples[k], barcode |-> Barcode(samples[k]),
         demultiplexedPath |-> NoPath, trimmedPath |-> NoPath]]

\* class cd
cd_enter(c, newPath) == [savedPath |-> c, cwd |-> Resolve(c, newPath)]

cd_exit_NoRestore(c, saved) == c

cd_exit(c, saved) == saved

LoopHeadSkipsTrim(j) == IF j <= Len(samplesDict) THEN "cdMap" ELSE "buildGeneTable"

\* where the per-sample for loop goes when it is at index j
LoopHead(j) == IF j <= Len(samplesDict) THEN "trim_fastq" ELSE "buildGeneTable"

----------------------------------------------------------------------------
(* Initial state: the process has started, main() has not run yet *)

Init ==
    /\ args \in [input : {<<Comp("reads", "")>>},
                 samples : SampleLists,
                 experiment : ExperimentArgs,
                 genome : {<<Comp("genome", ".gbk")>>},
                 disruption : DisruptionArgs,
                 nobarcodes : BOOLEAN]
    /\ pc = "parseArgs"
    /\ experiment = ""
    /\ disruption = 0
    /\ nobarcodes = FALSE
    /\ barcode_qc = FALSE
    /\ barcode_length = 0
    /\ samplesDict = <<>>
    /\ geneMappings = <<>>
    /\ i = 1
    /\ cwd = StartDir
    /\ savedPath = NoPath
    /\ files = {}
    /\ trimmed = {}
    /\ history = <<>>
    /\ tables = <<>>
    /\ failed = NoFailure

----------------------------------------------------------------------------
(* The steps of main() *)

\* lines 63-76
ParseArgs ==
    /\ pc = "parseArgs"
    /\ experiment' = convert_to_filename(args.experiment)
    /\ disruption' = args.disruption
    /\ nobarcodes' = args.nobarcodes
    /\ pc' = "setBarcode"
    /\ UNCHANGED <<args, barcode_qc, barcode_length, samplesDict, geneMappings,
                   i, cwd, savedPath, files, trimmed, history, tables, failed>>

\* lines 78-81
SetBarcode ==
    /\ pc = "setBarcode"
    /\ barcode_qc' = BarcodeConfig(nobarcodes).qc
    /\ barcode_length' = BarcodeConfig(nobarcodes).len
    /\ pc' = "sample_prep"
    /\ UNCHANGED <<args, experiment, disruption, nobarcodes, samplesDict,
                   geneMappings, i, cwd, savedPath, files, trimmed, history,
                   tables, failed>>

\* line 86
SamplePrep ==
    /\ pc = "sample_prep"
    /\ \E ok \in BOOLEAN :
        /\ history' = Append(history,
               Event("sample_prep", NoSample, NoPath, NoPath,
                     IF barcode_qc THEN 1 ELSE 0, ok))
        /\ IF ok
           THEN /\ samplesDict' = sample_prep(args.samples)
                /\ pc' = "createExperimentDirectories"
                /\ UNCHANGED failed
           ELSE /\ Raise("sample_prep", NoSample)
                /\ UNCHANGED samplesDict
    /\ UNCHANGED <<args, experiment, disruption, nobarcodes, barcode_qc,
                   barcode_length, geneMappings, i, cwd, savedPath, files,
                   trimmed, tables>>

\* line 89
CreateExperimentDirectories ==
    /\ pc = "createExperimentDirectories"
    /\ \E ok \in BOOLEAN :
        /\ history' = Append(history,
               Event("createExperimentDirectories", NoSample, NoPath,
                     <<Comp(experiment, "")>>, 0, ok))
        /\ IF ok
           THEN pc' = "addPaths" /\ UNCHANGED failed
           ELSE Raise("createExperimentDirectories", NoSample)
    /\ UNCHANGED <<args, experiment, disruption, nobarcodes, barcode_qc,
                   barcode_length, samplesDict, geneMappings, i, cwd, savedPath,
                   files, trimmed, tables>>

\* lines 92-102: the path fields, then the branch on nobarcodes
AddPaths ==
    /\ pc = "addPaths"
    /\ samplesDict' =
          [k \in DOMAIN samplesDict |->
              [samplesDict[k] EXCEPT
                  !.demultiplexedPath = demultiplexedPath(experiment, samplesDict[k].name),
                  !.trimmedPath = trimmedPath(experiment, samplesDict[k].name)]]
    /\ i' = 1
    /\ pc' = IF nobarcodes
             THEN IF Len(samplesDict) = 0 THEN "gbk2fna" ELSE "copyfile"
             ELSE "demultiplex_fastq"
    /\ UNCHANGED <<args, experiment, disruption, nobarcodes, barcode_qc,
                   barcode_length, geneMappings, cwd, savedPath, files, trimmed,
                   history, tables, failed>>

\* lines 104-110: one iteration of the copy loop
CopyFile ==
    /\ pc = "copyfile"
    /\ i \in DOMAIN samplesDict
    /\ LET s   == samplesDict[i]
           src == args.input \o <<Comp(s.key, ".fastq.gz")>>
           dst == s.demultiplexedPath
       IN  \E ok \in BOOLEAN :
            /\ history' = Append(history, Event("copyfile", s.key, src, dst, 0, ok))
            /\ IF ok
               THEN /\ files' = files \cup {Resolve(cwd, dst)}
                    /\ i' = i + 1
                    /\ pc' = IF i = Len(samplesDict) THEN "gbk2fna" ELSE "copyfile"
                    /\ UNCHANGED failed
               ELSE /\ Raise("copyfile", s.key)
                    /\ UNCHANGED <<files, i>>
    /\ UNCHANGED <<args, experiment, disruption, nobarcodes, barcode_qc,
                   barcode_length, samplesDict, geneMappings, cwd, savedPath,
                   trimmed, tables>>

\* line 113
DemultiplexFastq ==
    /\ pc = "demultiplex_fastq"
    /\ \E ok \in BOOLEAN :
        /\ history' = Append(history,
               Event("demultiplex_fastq", NoSample, args.input,
                     <<Comp(experiment, "")>>, 0, ok))
        /\ IF ok
           THEN /\ files' = files \cup
                      {Resolve(cwd, samplesDict[k].demultiplexedPath) :
                          k \in DOMAIN samplesDict}
                /\ pc' = "gbk2fna"
                /\ UNCHANGED failed
           ELSE /\ Raise("demultiplex_fastq", NoSample)
                /\ UNCHANGED files
    /\ UNCHANGED <<args, experiment, disruption, nobarcodes, barcode_qc,
                   barcode_length, samplesDict, geneMappings, i, cwd, savedPath,
                   trimmed, tables>>

\* line 116
Gbk2fna ==
    /\ pc = "gbk2fna"
    /\ \E ok \in BOOLEAN :
        /\ history' = Append(history,
               Event("gbk2fna", NoSample, args.genome, genomeDir(experiment), 0, ok))
        /\ IF ok
           THEN /\ files' = files \cup
                      {Resolve(cwd, genomeDir(experiment) \o <<Comp(organism, ".fna")>>)}
                /\ pc' = "gbk2ftt"
                /\ UNCHANGED failed
           ELSE /\ Raise("gbk2fna", NoSample)
                /\ UNCHANGED files
    /\ UNCHANGED <<args, experiment, disruption, nobarcodes, barcode_qc,
                   barcode_length, samplesDict, geneMappings, i, cwd, savedPath,
                   trimmed, tables>>

\* line 117
Gbk2ftt ==
    /\ pc = "gbk2ftt"
    /\ \E ok \in BOOLEAN :
        /\ history' = Append(history,
               Event("gbk2ftt", NoSample, args.genome, genomeDir(experiment), 0, ok))
        /\ IF ok
           THEN /\ files' = files \cup
                      {Resolve(cwd, genomeDir(experiment) \o <<Comp(organism, ".ftt")>>)}
                /\ pc' = "cdBuild"
                /\ UNCHANGED failed
           ELSE /\ Raise("gbk2ftt", NoSample)
                /\ UNCHANGED files
    /\ UNCHANGED <<args, experiment, disruption, nobarcodes, barcode_qc,
                   barcode_length, samplesDict, geneMappings, i, cwd, savedPath,
                   trimmed, tables>>

\* line 120: cd.__enter__ of the bowtieBuild block
EnterBuild ==
    /\ pc = "cdBuild"
    /\ \E ok \in BOOLEAN :
        IF ok
        THEN /\ savedPath' = cd_enter(cwd, genomeDir(experiment)).savedPath
             /\ cwd' = cd_enter(cwd, genomeDir(experiment)).cwd
             /\ pc' = "bowtieBuild"
             /\ UNCHANGED failed
        ELSE /\ savedPath' = cwd
             /\ Raise("chdir", NoSample)
             /\ UNCHANGED cwd
    /\ UNCHANGED <<args, experiment, disruption, nobarcodes, barcode_qc,
                   barcode_length, samplesDict, geneMappings, i, files, trimmed,
                   history, tables>>

\* line 121, then cd.__exit__ (run whether bowtieBuild returns or raises)
BowtieBuild ==
    /\ pc = "bowtieBuild"
    /\ \E ok \in BOOLEAN :
        /\ history' = Append(history,
               Event("bowtieBuild", NoSample, <<Comp(organism, ".fna")>>, NoPath, 0, ok))
        /\ IF ok
           THEN pc' = LoopHead(1) /\ UNCHANGED failed
           ELSE Raise("bowtieBuild", NoSample)
    /\ cwd' = cd_exit(cwd, savedPath)
    /\ i' = 1
    /\ UNCHANGED <<args, experiment, disruption, nobarcodes, barcode_qc,
                   barcode_length, samplesDict, geneMappings, savedPath, files,
                   trimmed, tables>>

\* lines 126-130
TrimFastq ==
    /\ pc = "trim_fastq"
    /\ i \in DOMAIN samplesDict
    /\ LET s == samplesDict[i]
       IN  \E ok \in BOOLEAN :
            /\ history' = Append(history,
                   Event("trim_fastq", s.key, s.demultiplexedPath, s.trimmedPath,
                         barcode_length, ok))
            /\ IF ok
               THEN /\ files' = files \cup {Resolve(cwd, s.trimmedPath)}
                    /\ trimmed' = trimmed \cup {s.key}
                    /\ pc' = "cdMap"
                    /\ UNCHANGED failed
               ELSE \* a trim that raises may leave a partly written file
                    /\ \E partial \in BOOLEAN :
                          files' = IF partial
                                   THEN files \cup {Resolve(cwd, s.trimmedPath)}
                                   ELSE files
                    /\ Raise("trim_fastq", s.key)
                    /\ UNCHANGED trimmed
    /\ UNCHANGED <<args, experiment, disruption, nobarcodes, barcode_qc,
                   barcode_length, samplesDict, geneMappings, i, cwd, savedPath,
                   tables>>

\* line 131: cd.__enter__ of the bowtieMap block
EnterMap ==
    /\ pc = "cdMap"
    /\ \E ok \in BOOLEAN :
        IF ok
        THEN /\ savedPath' = cd_enter(cwd, genomeDir(experiment)).savedPath
             /\ cwd' = cd_enter(cwd, genomeDir(experiment)).cwd
             /\ pc' = "bowtieMap"
             /\ UNCHANGED failed
        ELSE /\ savedPath' = cwd
             /\ Raise("chdir", samplesDict[i].key)
             /\ UNCHANGED cwd
    /\ UNCHANGED <<args, experiment, disruption, nobarcodes, barcode_qc,
                   barcode_length, samplesDict, geneMappings, i, files, trimmed,
                   history, tables>>

\* lines 134-137, then cd.__exit__ (run whether bowtieMap returns or raises)
BowtieMap ==
    /\ pc = "bowtieMap"
    /\ LET sample == samplesDict[i].key
           inFile == Resolve(cwd, bowtie_in(sample))
       IN  \E ok \in BOOLEAN :
            /\ ok => inFile \in files
            /\ history' = Append(history,
                   Event("bowtieMap", sample, bowtie_in(sample), bowtie_out(sample), 0, ok))
            /\ IF ok
               THEN /\ files' = files \cup {Resolve(cwd, bowtie_out(sample))}
                    /\ pc' = "os.remove"
                    /\ UNCHANGED failed
               ELSE /\ Raise("bowtieMap", sample)
                    /\ UNCHANGED files
    /\ cwd' = cd_exit(cwd, savedPath)
    /\ UNCHANGED <<args, experiment, disruption, nobarcodes, barcode_qc,
                   barcode_length, samplesDict, geneMappings, i, savedPath,
                   trimmed, tables>>

OsRemoveSkipped ==
    /\ pc = "os.remove"
    /\ history' = Append(history,
           Event("os.remove", samplesDict[i].key, samplesDict[i].trimmedPath,
                 NoPath, 0, TRUE))
    /\ pc' = "mapSites"
    /\ UNCHANGED <<args, experiment, disruption, nobarcodes, barcode_qc,
                   barcode_length, samplesDict, geneMappings, i, cwd, savedPath,
                   files, trimmed, tables, failed>>

OsRemoveDropsPath ==
    /\ pc = "os.remove"
    /\ history' = Append(history,
           Event("os.remove", samplesDict[i].key, samplesDict[i].trimmedPath,
                 NoPath, 0, TRUE))
    /\ files' = files \ {Resolve(cwd, samplesDict[i].trimmedPath)}
    /\ samplesDict' = [samplesDict EXCEPT ![i].trimmedPath = NoPath]
    /\ pc' = "mapSites"
    /\ UNCHANGED <<args, experiment, disruption, nobarcodes, barcode_qc,
                   barcode_length, geneMappings, i, cwd, savedPath, trimmed,
                   tables, failed>>

\* line 139
OsRemove ==
    /\ pc = "os.remove"
    /\ LET s    == samplesDict[i]
           path == Resolve(cwd, s.trimmedPath)
           ok   == path \in files
       IN  /\ history' = Append(history,
                  Event("os.remove", s.key, s.trimmedPath, NoPath, 0, ok))
           /\ IF ok
              THEN /\ files' = files \ {path}
                   /\ pc' = "mapSites"
                   /\ UNCHANGED failed
              ELSE /\ Raise("os.remove", s.key)
                   /\ UNCHANGED files
    /\ UNCHANGED <<args, experiment, disruption, nobarcodes, barcode_qc,
                   barcode_length, samplesDict, geneMappings, i, cwd, savedPath,
                   trimmed, tables>>

\* line 140
MapSites ==
    /\ pc = "mapSites"
    /\ LET sample == samplesDict[i].key
           inp    == mapSitesInput(experiment, sample)
       IN  \E ok \in BOOLEAN :
            /\ ok => Resolve(cwd, inp) \in files
            /\ history' = Append(history, Event("mapSites", sample, inp, NoPath, 0, ok))
            /\ IF ok
               THEN pc' = "mapGenes" /\ UNCHANGED failed
               ELSE Raise("mapSites", sample)
    /\ UNCHANGED <<args, experiment, disruption, nobarcodes, barcode_qc,
                   barcode_length, samplesDict, geneMappings, i, cwd, savedPath,
                   files, trimmed, tables>>

MapGenesNotRecorded ==
    /\ pc = "mapGenes"
    /\ history' = Append(history,
           Event("mapGenes", samplesDict[i].key, NoPath, NoPath, disruption, TRUE))
    /\ i' = i + 1
    /\ pc' = LoopHead(i + 1)
    /\ UNCHANGED <<args, experiment, disruption, nobarcodes, barcode_qc,
                   barcode_length, samplesDict, geneMappings, cwd, savedPath,
                   files, trimmed, tables, failed>>

\* line 143, then the loop goes to the next sample
MapGenes ==
    /\ pc = "mapGenes"
    /\ LET sample == samplesDict[i].key
       IN  \E ok \in BOOLEAN :
            /\ history' = Append(history,
                   Event("mapGenes", sample, NoPath, NoPath, disruption, ok))
            /\ IF ok
               THEN /\ geneMappings' =
                          [k \in DOMAIN geneMappings \cup {sample} |->
                              IF k = sample THEN <<sample, disruption>>
                              ELSE geneMappings[k]]
                    /\ i' = i + 1
                    /\ pc' = LoopHead(i + 1)
                    /\ UNCHANGED failed
               ELSE /\ Raise("mapGenes", sample)
                    /\ UNCHANGED <<geneMappings, i>>
    /\ UNCHANGED <<args, experiment, disruption, nobarcodes, barcode_qc,
                   barcode_length, samplesDict, cwd, savedPath, files, trimmed,
                   tables>>

\* line 144
BuildGeneTable ==
    /\ pc = "buildGeneTable"
    /\ \E ok \in BOOLEAN :
        /\ history' = Append(history,
               Event("buildGeneTable", NoSample, NoPath, NoPath, 0, ok))
        /\ tables' = Append(tables,
               [samplesDict |-> samplesDict, geneMappings |-> geneMappings])
        /\ IF ok
           THEN pc' = "done" /\ UNCHANGED failed
           ELSE Raise("buildGeneTable", NoSample)
    /\ UNCHANGED <<args, experiment, disruption, nobarcodes, barcode_qc,
                   barcode_length, samplesDict, geneMappings, i, cwd, savedPath,
                   files, trimmed>>

Next ==
    \/ ParseArgs
    \/ SetBarcode
    \/ SamplePrep
    \/ CreateExperimentDirectories
    \/ AddPaths
    \/ CopyFile
    \/ DemultiplexFastq
    \/ Gbk2fna
    \/ Gbk2ftt
    \/ EnterBuild
    \/ BowtieBuild
    \/ TrimFastq
    \/ EnterMap
    \/ BowtieMap
    \/ OsRemove
    \/ MapSites
    \/ MapGenes
    \/ BuildGeneTable

Spec == Init /\ [][Next]_vars

Terminal == pc \in {"done", "aborted"}

TypeOK ==
    /\ pc \in {"parseArgs", "setBarcode", "sample_prep",
               "createExperimentDirectories", "addPaths", "copyfile",
               "demultiplex_fastq", "gbk2fna", "gbk2ftt", "cdBuild",
               "bowtieBuild", "trim_fastq", "cdMap", "bowtieMap", "os.remove",
               "mapSites", "mapGenes", "buildGeneTable", "done", "aborted"}
    /\ i \in 1..(MaxSamples + 1)
    /\ barcode_length \in {0, 4}

----------------------------------------------------------------------------
(* Observations on the calls made so far *)

Calls(op) == {k \in DOMAIN history : history[k].op = op}

CallsFor(op, sample) == {k \in Calls(op) : history[k].sample = sample}

Returned(op, sample) == {k \in CallsFor(op, sample) : history[k].ok}

IsTrimmedFile(f) == f # <<>> /\ f[Len(f)][2] = "_trimmed.fastq"

TrimmedFilesOnDisk == {f \in files : IsTrimmedFile(f)}

TrimmedFileOf(k) == Resolve(StartDir, samplesDict[k].trimmedPath)

BadDisruption == args.disruption < 0 \/ args.disruption > 10

StageOrder == <<"trim_fastq", "bowtieMap", "mapSites", "mapGenes">>

IsStage(e) == \E k \in DOMAIN StageOrder : e.op = StageOrder[k]

StageTrace == SelectSeq(history, IsStage)

FullyProcessed(sample) ==
    \A k \in DOMAIN StageOrder : Returned(StageOrder[k], sample) # {}

----------------------------------------------------------------------------
(* Claims *)

\* C1: if bowtieMap fails for one sample, the run continues: every other
\* sample of the registry is still trimmed, aligned, site-mapped and
\* gene-mapped, and the gene table is still built.
C1_AlignerFailureIsPerSample ==
    (Terminal /\ \E k \in Calls("bowtieMap") : ~history[k].ok) =>
        /\ Calls("buildGeneTable") # {}
        /\ \A k \in DOMAIN samplesDict :
              (\A b \in CallsFor("bowtieMap", samplesDict[k].key) : history[b].ok)
                 => FullyProcessed(samplesDict[k].key)

\* C2: with a disruption fraction outside [0.0, 1.0] the run aborts before
\* anything is done: no collaborator is ever called and nothing is written.
C2_BadDisruptionAbortsEarly ==
    BadDisruption => (history = <<>> /\ files = {} /\ samplesDict = <<>>)

\* C3: at most one trimmed file exists at any time; a sample's trimmed file
\* is removed only after the aligner call for that sample returned and before
\* the next sample is trimmed; when a sample fails, no earlier sample's
\* trimmed file is on disk.
C3_TrimmedFilesBounded ==
    /\ Cardinality(TrimmedFilesOnDisk) <= 1
    /\ \A r \in Calls("os.remove") :
          \E b \in Returned("bowtieMap", history[r].sample) : b < r
    /\ \A k \in DOMAIN samplesDict : \A t \in CallsFor("trim_fastq", samplesDict[k].key) :
          \A j \in 1..(k - 1) :
             /\ \E r \in Returned("os.remove", samplesDict[j].key) : r < t
             /\ TrimmedFileOf(j) \notin files
    /\ (pc = "aborted" /\ failed.sample # NoSample) =>
          \A k \in DOMAIN samplesDict : \A j \in 1..(k - 1) :
             samplesDict[k].key = failed.sample => TrimmedFileOf(j) \notin files

C3_Witness ==
    /\ pc = "aborted"
    /\ Len(samplesDict) >= 2
    /\ failed = [op |-> "bowtieMap", sample |-> samplesDict[2].key]
    /\ Returned("os.remove", samplesDict[1].key) # {}
    /\ TrimmedFilesOnDisk = {TrimmedFileOf(2)}

\* C4: once trim_fastq has produced a sample's trimmed file, the file is
\* removed on every exit from that sample's alignment step, also when the
\* aligner invocation fails, so in every terminal state (completion or abort)
\* no trimmed file of a sample the aligner was invoked for remains.
C4_TrimmedFileAlwaysCleaned ==
    Terminal =>
        \A k \in DOMAIN samplesDict :
            (/\ samplesDict[k].key \in trimmed
             /\ CallsFor("bowtieMap", samplesDict[k].key) # {})
                => TrimmedFileOf(k) \notin files

\* C5: samples are processed one at a time in registry order; for each sample
\* the stages run once each in the order trim, align, site-map, gene-map, a
\* stage starts only after the stage before it has returned, and a completed
\* run has run every stage of every sample.
C5_SequentialStages ==
    /\ Len(StageTrace) <= 4 * Len(samplesDict)
    /\ \A k \in DOMAIN StageTrace :
          /\ StageTrace[k].op = StageOrder[((k - 1) % 4) + 1]
          /\ (k - 1) \div 4 + 1 \in DOMAIN samplesDict
          /\ StageTrace[k].sample = samplesDict[(k - 1) \div 4 + 1].key
          /\ k < Len(StageTrace) => StageTrace[k].ok
    /\ pc \in {"buildGeneTable", "done"} =>
          /\ Len(StageTrace) = 4 * Len(samplesDict)
          /\ \A k \in DOMAIN StageTrace : StageTrace[k].ok

C5_Witness ==
    /\ pc = "done"
    /\ Len(samplesDict) >= 2
    /\ Len(StageTrace) = 4 * Len(samplesDict)

\* C6: buildGeneTable is called at most once, only after a gene-map result
\* is recorded for every sample, and the keys of the mapping it receives are
\* exactly the sample names of the registry.
C6_TableAfterAllSamples ==
    /\ Len(tables) <= 1
    /\ Len(tables) = Cardinality(Calls("buildGeneTable"))
    /\ \A t \in DOMAIN tables :
          /\ DOMAIN tables[t].geneMappings = Keys(tables[t].samplesDict)
          /\ Keys(samplesDict) = {samplesDict[k].name : k \in DOMAIN samplesDict}
          /\ \A k \in DOMAIN samplesDict :
                \E m \in Returned("mapGenes", samplesDict[k].key) :
                   \A b \in Calls("buildGeneTable") : m < b

C6_Witness ==
    /\ Len(tables) = 1
    /\ Len(samplesDict) >= 2
    /\ DOMAIN geneMappings = Keys(samplesDict)

\* C7: without --nobarcodes barcode QC is on, the demultiplexer runs once
\* before any trimming and every trim gets barcode length 4; with
\* --nobarcodes QC is off, the demultiplexer never runs, each sample's reads
\* file is copied and every trim gets 0.  Two trims of a run get the same value.
C7_BarcodeLengthConsistent ==
    /\ \A a, b \in Calls("trim_fastq") : history[a].n = history[b].n
    /\ ~args.nobarcodes =>
          /\ \A k \in Calls("sample_prep") : history[k].n = 1
          /\ \A k \in Calls("trim_fastq") : history[k].n = 4
          /\ Cardinality(Calls("demultiplex_fastq")) <= 1
          /\ Calls("copyfile") = {}
          /\ \A t \in Calls("trim_fastq") :
                \E d \in Calls("demultiplex_fastq") : d < t /\ history[d].ok
    /\ args.nobarcodes =>
          /\ \A k \in Calls("sample_prep") : history[k].n = 0
          /\ \A k \in Calls("trim_fastq") : history[k].n = 0
          /\ Calls("demultiplex_fastq") = {}
          /\ \A t \in Calls("trim_fastq") : \A k \in DOMAIN samplesDict :
                \E c \in Returned("copyfile", samplesDict[k].key) : c < t

C7_Witness ==
    /\ args.nobarcodes
    /\ Cardinality(Calls("trim_fastq")) >= 2
    /\ \A k \in Calls("trim_fastq") : history[k].n = 0

\* C8: from the first demultiplex/copy step on, no step changes the registry
\* (its samples, their order or any field), and buildGeneTable receives the
\* registry the per-sample loop iterated over.
C8_RegistryFrozen ==
    [][/\ pc \notin {"parseArgs", "setBarcode", "sample_prep",
                     "createExperimentDirectories", "addPaths"}
             => samplesDict' = samplesDict
       /\ \A t \in DOMAIN tables' : tables'[t].samplesDict = samplesDict]_vars

C8_Witness ==
    /\ pc = "done"
    /\ Len(tables) = 1
    /\ Len(samplesDict) >= 2
    /\ tables[1].samplesDict = samplesDict

\* C9: every `with cd(genomeDir)` block restores the working directory on
\* exit, whether its body returns or raises: only bowtieBuild and bowtieMap
\* run inside genome_lookup, every other call runs in the start directory.
C9_WorkingDirectoryScoped ==
    /\ \A k \in DOMAIN history :
          history[k].cwd = IF history[k].op \in {"bowtieBuild", "bowtieMap"}
                           THEN Resolve(StartDir, genomeDir(experiment))
                           ELSE StartDir
    /\ pc \notin {"bowtieBuild", "bowtieMap"} => cwd = StartDir

C9_Witness ==
    /\ pc = "aborted"
    /\ failed.op = "bowtieMap"
    /\ cwd = StartDir
    /\ Returned("bowtieBuild", NoSample) # {}

\* C10: for every sample the path given to the aligner denotes the file
\* trim_fastq wrote and os.remove deletes, and the path given to mapSites
\* denotes the file the aligner was told to write.
C10_FileHandoff ==
    \A k \in DOMAIN history :
        LET e == history[k] IN
        /\ e.op = "bowtieMap" =>
              \E t \in Returned("trim_fastq", e.sample) :
                 /\ t < k
                 /\ Resolve(e.cwd, e.inp) = Resolve(history[t].cwd, history[t].out)
        /\ e.op = "os.remove" =>
              \E b \in Returned("bowtieMap", e.sample) :
                 /\ b < k
                 /\ Resolve(e.cwd, e.inp) = Resolve(history[b].cwd, history[b].inp)
        /\ e.op = "mapSites" =>
              \E b \in Returned("bowtieMap", e.sample) :
                 /\ b < k
                 /\ Resolve(e.cwd, e.inp) = Resolve(history[b].cwd, history[b].out)

C10_Witness ==
    /\ Len(samplesDict) >= 2
    /\ Returned("mapSites", samplesDict[2].key) # {}
    /\ Returned("os.remove", samplesDict[2].key) # {}

====
